---------------------------- MODULE Spec2Model ----------------------------
(***************************************************************************)
(* The reconnecting transport (WebSocketService, frontend/utils/ws.ts) and *)
(* the capture / voice-activity / playback pipeline (AudioProcessor and    *)
(* the MicStream orchestrator) of the voice agent front end.               *)
(*                                                                         *)
(* The browser is the environment: it owns each WebSocket's readyState,    *)
(* delivers open / error / close events as tasks of the event loop and     *)
(* fires timers when their delay has elapsed.  Time advances in steps of   *)
(* the base reconnect delay.                                               *)
(***************************************************************************)
EXTENDS Integers, Sequences, FiniteSets, TLC

\* ------------------------------------------------------------------ bounds
MaxSockets == 6        \* WebSocket objects the service may create in one run
MaxCalls == 4          \* calls the caller makes on the service in one run
MaxNodes == 2          \* audio contexts created in one run
MaxPlays == 2          \* playback sessions in flight at once
MaxSilenceTimers == 2  \* debounce timers pending at once
MaxFrames == 1         \* captured frames the transport holds unsent at once
MaxSamples == 2        \* samples per buffer converted
SampleUnit == 4        \* samples are multiples of 1/SampleUnit
MaxSupplied == 3       \* services the parent supplies to MicStream
MaxOwn == 3            \* services MicStream constructs in one run

\* ------------------------------------------------------- program constants
maxReconnectAttempts == 5
reconnectDelay == 1000
speechDetectionThreshold == 30
silenceDelay == 500    \* delay of the SpeechEnd timer, in ms
bufferSize == 4096     \* samples per capture callback
sampleRate == 16000

\* duration of one capture window, in ms
WindowMs == (bufferSize * 1000) \div sampleRate

SocketIds == 1..MaxSockets
NoSocket == 0          \* this.ws = null

\* RTVIMessage.type
MessageTypes == {"audio", "text", "control", "error"}

\* the types the callers of send() pass: onopen and sendText
CallerTypes == {"control", "text"}

VARIABLES
    \* WebSocketService fields
    ws,                \* this.ws: the socket the service refers to, or NoSocket
    reconnectAttempts, \* this.reconnectAttempts
    isConnecting,      \* this.isConnecting
    \* browser side
    sockets,           \* per WebSocket object: its stage (readyState and pending events)
    created,           \* number of WebSocket objects constructed so far
    timers,            \* pending setTimeout callbacks of scheduleReconnect
    wire,              \* per socket not yet closed: the frames transmitted on it, in order
    \* what the listeners were told last
    connected,         \* last argument passed to onConnectionChange
    lastError,         \* last argument passed to onError
    \* bookkeeping the properties read
    origin,            \* per socket not yet closed: attempt number of the timer that created it (0: the caller)
    delays,            \* delays scheduled since the attempt counter was last reset
    lastCall,          \* last lifecycle call made by the caller: "connect" or "disconnect"
                       \* right after the call, "connect+" or "disconnect+" once anything
                       \* else has happened since
    calls,             \* number of calls the caller has made
    dropped,           \* numbers of the calls that submitted a message while not connected
    sinceClose         \* event.wasClean of the latest close event ("clean", "unclean"),
                       \* "called" once the caller has called connect() or disconnect()
                       \* since, "none" before either

VARIABLES
    \* AudioProcessor fields
    audioContext,      \* this.audioContext: a node, or NoNode
    mediaStream,       \* this.mediaStream: the node whose stream it is, or NoNode
    processor,         \* this.processor: the node whose ScriptProcessor it is, or NoNode
    analyser,          \* this.analyser (and this.dataArray): a node, or NoNode
    isRecording,       \* this.isRecording
    isSpeaking,        \* this.isSpeaking
    silenceTimeout,    \* this.silenceTimeout: a timer handle, NoHandle or Stale
    \* browser side
    nodes,             \* per audio context: its state, its microphone stream, its processor
    allocated,         \* number of audio contexts constructed so far
    due,               \* the processors whose callback of the current window is pending
    silenceTimers,     \* pending setTimeout callbacks of detectSpeech
    pendingStarts,     \* startRecording() calls awaiting getUserMedia
    plays,             \* playAudio() calls in flight: decoding or playing
    \* MicStream
    uiRecording,       \* React state isRecording
    uiPlaying,         \* React state isPlaying
    closure,           \* the state values the effect's callbacks captured
    \* what the subscribers observe
    lastEvent,         \* last speech notification emitted
    lastFrame,         \* the frame last handed to onAudioData: what was true then
    steps,             \* what the latest step called and emitted, in order
    lastOp,            \* the latest of startRecording() and stopRecording() called
    quiet              \* ms since a capture callback last measured speech (capped)

audioVars == <<audioContext, mediaStream, processor, analyser, isRecording, isSpeaking,
               silenceTimeout, nodes, allocated, due, silenceTimers, pendingStarts,
               plays, uiRecording, uiPlaying, closure, lastEvent, lastFrame,
               steps, lastOp, quiet>>

wsVars == <<ws, reconnectAttempts, isConnecting, sockets, created, timers, wire,
            connected, lastError, origin, delays, lastCall, calls, dropped, sinceClose>>

VARIABLES
    \* what the listeners of the service were handed by the latest inbound frame
    heard,             \* the listener invocations handleMessage made, in order
    lastInbound        \* the frame the latest message event carried

inboundVars == <<heard, lastInbound>>

VARIABLES
    \* floatTo16BitPCM
    input,             \* the Float32Array handed to the conversion
    output,            \* the Int16Array it returned
    \* getVolume
    volume             \* what the latest getVolume() returned, in units of 1/VolumeUnit

pcmVars == <<input, output>>

VARIABLES
    \* MicStream and its effect
    mounted,           \* the component is mounted and its effect has run
    webSocketService,  \* the prop of the latest render: a service, or NoService
    effectService,     \* the webSocketService the running effect's closure captured
    wsRef,             \* wsRef.current: a service, or NoService
    ownCreated,        \* number of services MicStream has constructed itself
    listening,         \* the services whose listener fields hold MicStream's handlers
    disconnected       \* the services MicStream has called disconnect() on

mountVars == <<mounted, webSocketService, effectService, wsRef, ownCreated, listening,
               disconnected>>

vars == <<wsVars, audioVars, inboundVars, pcmVars, volume, mountVars>>

\* --------------------------------------------------------------- WebSocket
\* isConnected(): this.ws?.readyState === WebSocket.OPEN, on given field values
isConnectedIn(w, socks) == w # NoSocket /\ socks[w] = "OPEN"

isConnected == isConnectedIn(ws, sockets)

\* A socket that is not yet closed: readyState CONNECTING or OPEN.
Live(s) == sockets[s] \in {"CONNECTING", "OPEN"}

\* ERRORED is a closed socket whose error event ran and whose close event is
\* the next thing the current task dispatches; nothing else runs in between.
midTask == \E s \in SocketIds : sockets[s] = "ERRORED"

\* The handshake announced on open.
Handshake == [enc |-> "json", type |-> "control", data |-> "connect:rtvi", id |-> 0]

\* WebSocket.close() on a socket in the given stage.  ABORTING is a socket
\* closed by the client before it was established: its connection fails.
closeStage(stage) ==
    CASE stage = "CONNECTING" -> "ABORTING"
      [] stage = "OPEN" -> "CLOSING"
      [] OTHER -> stage

\* ------------------------------------------------------------------ send
\* send(message) and sendAudio(audioData): the wire after the call, with the
\* fields as given.  ws.send() throws on a CONNECTING socket (caught and
\* logged), transmits on an OPEN one and discards on a closing or closed one.
sendOn_buffers(w, socks, wr, frame) ==
    IF w # NoSocket /\ socks[w] \in {"CONNECTING", "OPEN"}
    THEN [wr EXCEPT ![w] = Append(@, frame)]
    ELSE wr

sendOn(w, socks, wr, frame) ==
    IF ~isConnectedIn(w, socks)
    THEN wr
    ELSE IF socks[w] = "OPEN"
         THEN [wr EXCEPT ![w] = Append(@, frame)]
         ELSE wr

\* ------------------------------------------------------------- reconnect
\* delay of the reconnect scheduled as attempt number n
backoffDelay_linear(n) == reconnectDelay * n

backoffDelay(n) == reconnectDelay * (2 ^ (n - 1))

\* the condition under which onclose schedules a reconnect
shouldReconnect_inclusive(wasClean, attempts) ==
    ~wasClean /\ attempts <= maxReconnectAttempts

\* a condition that does not look at how the socket closed
shouldReconnect_anyClose(wasClean, attempts) ==
    attempts < maxReconnectAttempts

shouldReconnect(wasClean, attempts) ==
    ~wasClean /\ attempts < maxReconnectAttempts

\* scheduleReconnect()
scheduleReconnect ==
    /\ reconnectAttempts' = reconnectAttempts + 1
    /\ timers' = Append(timers, [attempt |-> reconnectAttempts + 1,
                                 rem |-> backoffDelay(reconnectAttempts + 1)])
    /\ delays' = Append(delays, backoffDelay(reconnectAttempts + 1))

\* ------------------------------------------------------- socket handlers
\* ws.onopen of socket s (the socket is OPEN when the handler runs)
onopen(s) ==
    /\ isConnecting' = FALSE
    /\ reconnectAttempts' = 0
    /\ delays' = <<>>
    /\ connected' = "true"
    /\ wire' = sendOn(ws, [sockets EXCEPT ![s] = "OPEN"], wire, Handshake)
    /\ UNCHANGED <<ws, timers, lastError>>

\* ws.onclose of socket s
onclose(s, wasClean) ==
    /\ isConnecting' = FALSE
    /\ connected' = "false"
    /\ IF shouldReconnect(wasClean, reconnectAttempts)
       THEN scheduleReconnect
       ELSE UNCHANGED <<reconnectAttempts, timers, delays>>
    /\ UNCHANGED <<ws, lastError>>

\* ws.onerror of socket s
onerror_reconnects(s) ==
    /\ isConnecting' = FALSE
    /\ lastError' = "Connection error"
    /\ IF reconnectAttempts < maxReconnectAttempts
       THEN scheduleReconnect
       ELSE UNCHANGED <<reconnectAttempts, timers, delays>>
    /\ UNCHANGED <<ws, connected, wire>>

onerror(s) ==
    /\ isConnecting' = FALSE
    /\ lastError' = "Connection error"
    /\ UNCHANGED <<ws, reconnectAttempts, connected, timers, wire, delays>>

\* ---------------------------------------------------------------- connect
\* connect(), called by `by` (0: the caller, n: the timer of attempt n).
\* The URL is the well-formed default, so the constructor does not throw.
connectBody_noFlag(by) ==
    IF isConnected
    THEN UNCHANGED <<ws, isConnecting, sockets, created, origin>>
    ELSE /\ created < MaxSockets
         /\ isConnecting' = TRUE
         /\ created' = created + 1
         /\ ws' = created + 1
         /\ sockets' = [sockets EXCEPT ![created + 1] = "CONNECTING"]
         /\ origin' = [origin EXCEPT ![created + 1] = by]

connectBody(by) ==
    IF isConnecting \/ isConnected
    THEN UNCHANGED <<ws, isConnecting, sockets, created, origin>>
    ELSE /\ created < MaxSockets
         /\ isConnecting' = TRUE
         /\ created' = created + 1
         /\ ws' = created + 1
         /\ sockets' = [sockets EXCEPT ![created + 1] = "CONNECTING"]
         /\ origin' = [origin EXCEPT ![created + 1] = by]

\* a disconnect() that closes the socket and keeps the reference to it
disconnectBody_keepsRef ==
    IF ws # NoSocket
    THEN /\ sockets' = [sockets EXCEPT ![ws] = closeStage(@)]
         /\ UNCHANGED ws
    ELSE UNCHANGED <<ws, sockets>>

\* disconnect()
disconnectBody ==
    IF ws # NoSocket
    THEN /\ sockets' = [sockets EXCEPT ![ws] = closeStage(@)]
         /\ ws' = NoSocket
    ELSE UNCHANGED <<ws, sockets>>

\* lastCall after a step that is not a lifecycle call
after(call) ==
    CASE call = "connect" -> "connect+"
      [] call = "disconnect" -> "disconnect+"
      [] OTHER -> call

\* ---------------------------------------------------------------- actions
\* the caller invokes connect()
connect ==
    /\ ~midTask
    /\ calls < MaxCalls
    /\ calls' = calls + 1
    /\ connectBody(0)
    /\ lastCall' = "connect"
    /\ UNCHANGED <<reconnectAttempts, timers, wire, connected, lastError, delays,
                   dropped>>
    /\ UNCHANGED <<audioVars, inboundVars, mountVars, pcmVars, volume>>
    /\ sinceClose' = "called"

\* the caller invokes disconnect()
disconnect ==
    /\ ~midTask
    /\ calls < MaxCalls
    /\ calls' = calls + 1
    /\ disconnectBody
    /\ lastCall' = "disconnect"
    /\ UNCHANGED <<reconnectAttempts, isConnecting, created, timers, wire,
                   connected, lastError, origin, delays, dropped>>
    /\ UNCHANGED <<audioVars, inboundVars, mountVars, pcmVars, volume>>
    /\ sinceClose' = "called"

\* the browser establishes socket s and dispatches its open event
SocketOpen(s) ==
    /\ ~midTask
    /\ sockets[s] = "CONNECTING"
    /\ sockets' = [sockets EXCEPT ![s] = "OPEN"]
    /\ onopen(s)
    /\ lastCall' = after(lastCall)
    /\ UNCHANGED <<created, origin, calls, dropped>>
    /\ UNCHANGED <<audioVars, inboundVars, mountVars, pcmVars, volume, sinceClose>>

\* the connection of socket s fails: the socket is closed and its error event
\* is dispatched; its close event follows in the same task
SocketError(s) ==
    /\ ~midTask
    /\ sockets[s] \in {"CONNECTING", "OPEN", "CLOSING", "ABORTING"}
    /\ sockets' = [sockets EXCEPT ![s] = "ERRORED"]
    /\ onerror(s)
    /\ lastCall' = after(lastCall)
    /\ UNCHANGED <<created, origin, calls, dropped>>
    /\ UNCHANGED <<audioVars, inboundVars, mountVars, pcmVars, volume, sinceClose>>

\* the close event of socket s: after its error event (never clean), or on its
\* own when the closing handshake completes or the connection is lost
SocketClose(s, wasClean) ==
    /\ \/ sockets[s] = "ERRORED" /\ ~wasClean
       \/ ~midTask /\ sockets[s] \in {"OPEN", "CLOSING"}
    /\ sockets' = [sockets EXCEPT ![s] = "CLOSED"]
    /\ onclose(s, wasClean)
    /\ wire' = [wire EXCEPT ![s] = <<>>]
    /\ origin' = [origin EXCEPT ![s] = 0]
    /\ lastCall' = after(lastCall)
    /\ UNCHANGED <<created, calls, dropped>>
    /\ UNCHANGED <<audioVars, inboundVars, mountVars, pcmVars, volume>>
    /\ sinceClose' = IF wasClean THEN "clean" ELSE "unclean"

\* a reconnect timer whose delay has elapsed fires: this.connect()
ReconnectTimer(i) ==
    /\ ~midTask
    /\ timers[i].rem = 0
    /\ timers' = [j \in 1..(Len(timers) - 1) |->
                     IF j < i THEN timers[j] ELSE timers[j + 1]]
    /\ connectBody(timers[i].attempt)
    /\ lastCall' = after(lastCall)
    /\ UNCHANGED <<reconnectAttempts, wire, connected, lastError, delays,
                   calls, dropped>>
    /\ UNCHANGED <<audioVars, inboundVars, mountVars, pcmVars, volume, sinceClose>>

\* time passes by one base delay; a timer that is due fires first
Tick ==
    /\ ~midTask
    /\ timers # <<>>
    /\ \A i \in 1..Len(timers) : timers[i].rem > 0
    /\ timers' = [i \in 1..Len(timers) |->
                     [timers[i] EXCEPT !.rem = @ - reconnectDelay]]
    /\ lastCall' = after(lastCall)
    /\ UNCHANGED <<ws, reconnectAttempts, isConnecting, sockets, created, wire,
                   connected, lastError, origin, delays, calls, dropped>>
    /\ UNCHANGED <<audioVars, inboundVars, mountVars, pcmVars, volume, sinceClose>>

\* the caller submits a frame through send() or sendAudio()
submit(frame) ==
    /\ ~midTask
    /\ calls < MaxCalls
    /\ calls' = calls + 1
    /\ wire' = sendOn(ws, sockets, wire, frame)
    /\ dropped' = IF isConnected THEN dropped ELSE dropped \cup {calls + 1}
    /\ lastCall' = after(lastCall)
    /\ UNCHANGED <<ws, reconnectAttempts, isConnecting, sockets, created, timers,
                   connected, lastError, origin, delays>>
    /\ UNCHANGED <<audioVars, inboundVars, mountVars, pcmVars, volume, sinceClose>>

\* the caller invokes send(message) with a message of type t: a JSON envelope
send(t) ==
    submit([enc |-> "json", type |-> t, data |-> "payload", id |-> calls + 1])

\* the caller invokes sendText(text)
sendText == send("text")

\* the caller invokes sendAudio(audioData): a native binary frame
sendAudio ==
    submit([enc |-> "binary", type |-> "audio", data |-> "payload", id |-> calls + 1])


\* ============================================================ AudioProcessor
NodeIds == 1..MaxNodes
NoNode == 0
Handles == 1..MaxSilenceTimers
NoHandle == 0
Stale == -1            \* the handle of a timer that has fired: the field is not cleared

\* mean magnitudes the analyser may report for a window
Levels == {0, speechDetectionThreshold, speechDetectionThreshold + 1}

\* the longest silence the model tells apart: two capture windows
QuietCap == 2 * WindowMs

FreshNode == [ctx |-> "none", stream |-> FALSE, proc |-> FALSE]

\* a playback session puts out sound: its source was started and has not
\* ended, and its context is running
Emitting(p) == p.stage = "playing" /\ nodes[p.ctx].ctx = "running"

\* stopPlayback(): logs, and stops no source
stopPlayback(ps) == ps

\* MicStream's onSpeechStart: stopPlayback(), setIsPlaying(false).  `cut`
\* records on each session that was putting out sound that it was interrupted.
onSpeechStart(ps) ==
    stopPlayback([i \in 1..Len(ps) |->
                     IF Emitting(ps[i]) THEN [ps[i] EXCEPT !.cut = TRUE] ELSE ps[i]])

\* the smallest timer handle not in use
FreeHandle == CHOOSE h \in Handles :
                 /\ h \notin {x.h : x \in silenceTimers}
                 /\ \A g \in Handles : g < h => g \in {x.h : x \in silenceTimers}

\* a clearTimeout that cancels nothing
clearTimeout_noop(handle, ts) == ts

\* clearTimeout(handle)
clearTimeout(handle, ts) == {x \in ts : x.h # handle}

\* a detector that notifies on every window above the threshold
speechStarts_everyWindow(level) ==
    analyser # NoNode /\ level > speechDetectionThreshold

\* detectSpeech() notifies onSpeechStart for a window of mean magnitude `level`
speechStarts(level) ==
    analyser # NoNode /\ level > speechDetectionThreshold /\ ~isSpeaking

\* what detectSpeech() does for such a window, in order
detectSteps(level) ==
    <<"detectSpeech">> \o (IF speechStarts(level)
                           THEN <<"onSpeechStart", "stopPlayback">> ELSE <<>>)

\* what MicStream's onAudioData does with the frame, in order
frameSteps ==
    <<"onAudioData">> \o (IF closure.isConnected THEN <<"sendAudio">> ELSE <<>>)

\* detectSpeech() for a window of mean magnitude `level`
detectSpeech(level) ==
    LET wasSpeaking == isSpeaking
        speaking == level > speechDetectionThreshold
        started == speechStarts(level)
        ended == ~speaking /\ wasSpeaking
        cleared == IF started /\ silenceTimeout # NoHandle
                   THEN clearTimeout(silenceTimeout, silenceTimers)
                   ELSE silenceTimers
        handleAfterStart == IF started THEN NoHandle ELSE silenceTimeout
    IN IF analyser = NoNode
       THEN UNCHANGED <<isSpeaking, silenceTimeout, silenceTimers, plays, uiPlaying,
                        lastEvent, quiet>>
       ELSE /\ isSpeaking' = speaking
            /\ quiet' = IF speaking THEN 0 ELSE quiet
            /\ plays' = IF started THEN onSpeechStart(plays) ELSE plays
            /\ uiPlaying' = IF started THEN FALSE ELSE uiPlaying
            /\ lastEvent' = IF started THEN "SpeechStart" ELSE lastEvent
            /\ IF ended
               THEN /\ \E h \in Handles : h \notin {x.h : x \in cleared}
                    /\ silenceTimeout' = FreeHandle
                    /\ silenceTimers' = cleared \cup {[h |-> FreeHandle, rem |-> silenceDelay]}
               ELSE /\ silenceTimeout' = handleAfterStart
                    /\ silenceTimers' = cleared

\* MicStream's onAudioData: forward the frame if the captured isConnected says so
onAudioData ==
    LET forwards == closure.isConnected
    IN /\ forwards /\ isConnected => Len(wire[ws]) <= MaxFrames
       /\ wire' = IF forwards
                  THEN sendOn(ws, sockets, wire,
                              [enc |-> "binary", type |-> "audio", data |-> "payload",
                               id |-> 0])
                  ELSE wire
       /\ lastFrame' = [speechStart |-> isSpeaking' /\ ~isSpeaking,
                        forwarded |-> wire' # wire,
                        echo |-> \E i \in 1..Len(plays') :
                                    Emitting(plays'[i]) /\ plays'[i].cut]

\* the server reads the oldest captured frame the socket holds
FrameDelivered ==
    /\ isConnected
    /\ Len(wire[ws]) > 1
    /\ wire' = [wire EXCEPT ![ws] = <<Handshake>> \o SubSeq(@, 3, Len(@))]
    /\ UNCHANGED <<ws, reconnectAttempts, isConnecting, sockets, created, timers,
                   connected, lastError, origin, delays, lastCall, calls, dropped>>
    /\ UNCHANGED <<audioVars, inboundVars, mountVars, pcmVars, volume, sinceClose>>

\* a capture callback that hands the frame on before it runs the detection
callbackOrder_frameFirst(detection, frame) == frame \o detection

\* the body of the capture callback: detectSpeech(), then onAudioData
callbackOrder(detection, frame) == detection \o frame

\* processor.onaudioprocess of node n
onaudioprocess(n, level) ==
    /\ n \in due
    /\ due' = due \ {n}
    /\ IF ~isRecording
       THEN /\ steps' = <<>>
            /\ UNCHANGED <<isSpeaking, silenceTimeout, silenceTimers, plays, uiPlaying,
                           lastEvent, lastFrame, wire, quiet>>
       ELSE /\ detectSpeech(level)
            /\ onAudioData
            /\ steps' = callbackOrder(detectSteps(level), frameSteps)
    /\ UNCHANGED <<audioContext, mediaStream, processor, analyser, isRecording, nodes,
                   allocated, pendingStarts, uiRecording, closure, lastOp>>
    /\ UNCHANGED <<ws, reconnectAttempts, isConnecting, sockets, created, timers,
                   connected, lastError, origin, delays, lastCall, calls, dropped,
                   sinceClose>>
    /\ UNCHANGED <<inboundVars, mountVars, pcmVars, volume>>

\* one capture window of time passes
WindowElapses ==
    /\ due = {}
    /\ \A x \in silenceTimers : x.rem > 0
    /\ silenceTimers # {} \/ \E n \in NodeIds : nodes[n].proc /\ nodes[n].ctx = "running"
    /\ silenceTimers' = {[x EXCEPT !.rem = @ - WindowMs] : x \in silenceTimers}
    /\ due' = {n \in NodeIds : nodes[n].proc /\ nodes[n].ctx = "running"}
    /\ quiet' = IF quiet + WindowMs > QuietCap THEN QuietCap ELSE quiet + WindowMs
    /\ steps' = <<>>
    /\ UNCHANGED <<audioContext, mediaStream, processor, analyser, isRecording, isSpeaking,
                   silenceTimeout, nodes, allocated, pendingStarts, plays, uiRecording,
                   uiPlaying, closure, lastEvent, lastFrame, lastOp>>
    /\ UNCHANGED <<wsVars, inboundVars, mountVars, pcmVars, volume>>

\* a SpeechEnd timer whose delay has elapsed fires: this.onSpeechEnd?.()
SilenceTimerFires(x) ==
    /\ x \in silenceTimers
    /\ x.rem <= 0
    /\ silenceTimers' = silenceTimers \ {x}
    /\ silenceTimeout' = IF silenceTimeout = x.h THEN Stale ELSE silenceTimeout
    /\ lastEvent' = "SpeechEnd"
    /\ steps' = <<"onSpeechEnd">>
    /\ UNCHANGED <<audioContext, mediaStream, processor, analyser, isRecording, isSpeaking,
                   nodes, allocated, due, pendingStarts, plays, uiRecording, uiPlaying,
                   closure, lastFrame, lastOp, quiet>>
    /\ UNCHANGED <<wsVars, inboundVars, mountVars, pcmVars, volume>>

\* the browser's objects after stopRecording(): processor disconnected, tracks
\* stopped, context closed
stoppedNodes ==
    [n \in NodeIds |->
        [ctx |-> IF n = audioContext /\ nodes[n].ctx = "running"
                 THEN "closed" ELSE nodes[n].ctx,
         stream |-> IF n = mediaStream THEN FALSE ELSE nodes[n].stream,
         proc |-> IF n = processor THEN FALSE ELSE nodes[n].proc]]

\* AudioProcessor.stopRecording(), but for what it does to the browser's objects
stopRecordingFields ==
    /\ isRecording' = FALSE
    /\ due' = due \ {processor}
    /\ processor' = NoNode
    /\ mediaStream' = NoNode
    /\ silenceTimers' = IF silenceTimeout # NoHandle
                        THEN clearTimeout(silenceTimeout, silenceTimers)
                        ELSE silenceTimers
    /\ silenceTimeout' = NoHandle

\* AudioProcessor.stopRecording()
stopRecordingBody ==
    /\ stopRecordingFields
    /\ nodes' = stoppedNodes
    /\ audioContext' = NoNode

\* the user clicks the record button: toggleRecording().  The button is
\* enabled while MicStream's isConnected state is true.
toggleRecording ==
    /\ connected = "true"
    /\ IF uiRecording
       THEN /\ stopRecordingBody
            /\ uiRecording' = FALSE
            /\ lastOp' = "stopRecording"
            /\ steps' = <<"stopRecording">>
            /\ UNCHANGED pendingStarts
       ELSE /\ pendingStarts < MaxNodes
            /\ pendingStarts' = pendingStarts + 1
            /\ lastOp' = "startRecording"
            /\ steps' = <<"startRecording">>
            /\ UNCHANGED <<audioContext, mediaStream, processor, isRecording,
                           silenceTimeout, nodes, due, silenceTimers, uiRecording>>
    /\ UNCHANGED <<analyser, isSpeaking, allocated, plays, uiPlaying, closure, lastEvent,
                   lastFrame, quiet>>
    /\ UNCHANGED <<wsVars, inboundVars, mountVars, pcmVars, volume>>

\* getUserMedia resolves: the rest of AudioProcessor.startRecording() runs,
\* then MicStream's setIsRecording(true)
startRecordingResolves ==
    /\ pendingStarts > 0
    /\ allocated < MaxNodes
    /\ pendingStarts' = pendingStarts - 1
    /\ allocated' = allocated + 1
    /\ nodes' = [nodes EXCEPT ![allocated + 1] =
                    [ctx |-> "running", stream |-> TRUE, proc |-> TRUE]]
    /\ mediaStream' = allocated + 1
    /\ audioContext' = allocated + 1
    /\ analyser' = allocated + 1
    /\ processor' = allocated + 1
    /\ isRecording' = TRUE
    /\ uiRecording' = TRUE
    /\ steps' = <<>>
    /\ UNCHANGED <<isSpeaking, silenceTimeout, due, silenceTimers, plays, uiPlaying,
                   closure, lastEvent, lastFrame, lastOp, quiet>>
    /\ UNCHANGED <<wsVars, inboundVars, mountVars, pcmVars, volume>>

\* getUserMedia rejects: startRecording() throws, MicStream alerts
startRecordingRejects ==
    /\ pendingStarts > 0
    /\ pendingStarts' = pendingStarts - 1
    /\ steps' = <<"startRecording throws">>
    /\ UNCHANGED <<audioContext, mediaStream, processor, analyser, isRecording, isSpeaking,
                   silenceTimeout, nodes, allocated, due, silenceTimers, plays,
                   uiRecording, uiPlaying, closure, lastEvent, lastFrame, lastOp, quiet>>
    /\ UNCHANGED <<wsVars, inboundVars, mountVars, pcmVars, volume>>

\* the steps of startRecording() after getUserMedia that can throw
FailStages == {"AudioContext", "createScriptProcessor"}

\* getUserMedia resolves and a later step of startRecording() throws: what was
\* assigned before it stays assigned; the error is logged and rethrown, and
\* MicStream alerts
startRecordingThrows(stage) ==
    /\ pendingStarts > 0
    /\ allocated < MaxNodes
    /\ pendingStarts' = pendingStarts - 1
    /\ allocated' = allocated + 1
    /\ mediaStream' = allocated + 1
    /\ IF stage = "AudioContext"
       THEN /\ nodes' = [nodes EXCEPT ![allocated + 1].stream = TRUE]
            /\ UNCHANGED <<audioContext, analyser>>
       ELSE /\ nodes' = [nodes EXCEPT ![allocated + 1] =
                            [ctx |-> "running", stream |-> TRUE, proc |-> FALSE]]
            /\ audioContext' = allocated + 1
            /\ analyser' = allocated + 1
    /\ steps' = <<"startRecording throws">>
    /\ UNCHANGED <<processor, isRecording, isSpeaking, silenceTimeout, due, silenceTimers,
                   plays, uiRecording, uiPlaying, closure, lastEvent, lastFrame, lastOp,
                   quiet>>
    /\ UNCHANGED <<wsVars, inboundVars, mountVars, pcmVars, volume>>

\* inbound audio reaches MicStream's onAudioReceived: setIsPlaying(true), stop
\* recording if the captured isRecording says so, then playAudio() up to its
\* await of decodeAudioData
onAudioReceived ==
    /\ isConnected
    /\ Len(plays) < MaxPlays
    /\ uiPlaying' = TRUE
    /\ IF closure.isRecording
       THEN /\ stopRecordingFields
            /\ uiRecording' = FALSE
            /\ lastOp' = "stopRecording"
            /\ steps' = <<"stopRecording", "playAudio">>
       ELSE /\ steps' = <<"playAudio">>
            /\ UNCHANGED <<mediaStream, processor, isRecording, silenceTimeout, due,
                           silenceTimers, uiRecording, lastOp>>
    /\ LET context == IF closure.isRecording THEN NoNode ELSE audioContext
           objects == IF closure.isRecording THEN stoppedNodes ELSE nodes
       IN IF context = NoNode
          THEN /\ allocated < MaxNodes
               /\ allocated' = allocated + 1
               /\ audioContext' = allocated + 1
               /\ nodes' = [objects EXCEPT ![allocated + 1].ctx = "running"]
          ELSE /\ nodes' = objects
               /\ UNCHANGED <<allocated, audioContext>>
    /\ plays' = Append(plays, [stage |-> "decoding", ctx |-> audioContext', cut |-> FALSE])
    /\ UNCHANGED <<analyser, isSpeaking, pendingStarts, closure, lastEvent, lastFrame,
                   quiet>>
    /\ UNCHANGED <<wsVars, inboundVars, mountVars, pcmVars, volume>>

\* the sequence without its i-th element
Without(seq, i) ==
    [j \in 1..(Len(seq) - 1) |-> IF j < i THEN seq[j] ELSE seq[j + 1]]

\* sessions left in flight: setIsPlaying(false) runs when a playAudio() promise resolves
resolved(i) ==
    /\ plays' = Without(plays, i)
    /\ uiPlaying' = FALSE

\* decodeAudioData resolves for session i: a source is created on the current
\* this.audioContext and started; with no context the TypeError is caught
decodeResolves(i) ==
    /\ plays[i].stage = "decoding"
    /\ IF audioContext = NoNode
       THEN resolved(i)
       ELSE /\ plays' = [plays EXCEPT ![i] = [stage |-> "playing", ctx |-> audioContext,
                                              cut |-> FALSE]]
            /\ UNCHANGED uiPlaying
    /\ steps' = <<>>
    /\ UNCHANGED <<audioContext, mediaStream, processor, analyser, isRecording, isSpeaking,
                   silenceTimeout, nodes, allocated, due, silenceTimers, pendingStarts,
                   uiRecording, closure, lastEvent, lastFrame, lastOp, quiet>>
    /\ UNCHANGED <<wsVars, inboundVars, mountVars, pcmVars, volume>>

\* decodeAudioData rejects for session i: the error is caught and logged
decodeRejects(i) ==
    /\ plays[i].stage = "decoding"
    /\ resolved(i)
    /\ steps' = <<>>
    /\ UNCHANGED <<audioContext, mediaStream, processor, analyser, isRecording, isSpeaking,
                   silenceTimeout, nodes, allocated, due, silenceTimers, pendingStarts,
                   uiRecording, closure, lastEvent, lastFrame, lastOp, quiet>>
    /\ UNCHANGED <<wsVars, inboundVars, mountVars, pcmVars, volume>>

\* the source of session i has played its buffer to the end: source.onended
sourceEnded(i) ==
    /\ plays[i].stage = "playing"
    /\ resolved(i)
    /\ steps' = <<>>
    /\ UNCHANGED <<audioContext, mediaStream, processor, analyser, isRecording, isSpeaking,
                   silenceTimeout, nodes, allocated, due, silenceTimers, pendingStarts,
                   uiRecording, closure, lastEvent, lastFrame, lastOp, quiet>>
    /\ UNCHANGED <<wsVars, inboundVars, mountVars, pcmVars, volume>>

\* ===================================================== inbound messages
MaxBytes == 3          \* bytes in an audio payload
MaxText == 2           \* characters in a text payload

\* byte values the payloads are built from
Bytes == {0, 1, 128, 255}

\* the byte sequences of at most n bytes
RECURSIVE ByteSeqsUpTo(_)
ByteSeqsUpTo(n) ==
    IF n = 0 THEN {<<>>}
    ELSE LET shorter == ByteSeqsUpTo(n - 1)
         IN shorter \cup {Append(b, x) : b \in {c \in shorter : Len(c) = n - 1}, x \in Bytes}

ByteSeqs == ByteSeqsUpTo(MaxBytes)

\* base64 text: a sequence of symbols, 0..63 the characters of the alphabet by
\* value, Pad the character "=", Bad a character outside the alphabet
Pad == 64
Bad == 65

\* btoa: the standard base64 encoding the sender applies to the bytes
RECURSIVE btoa(_)
btoa(b) ==
    IF Len(b) = 0 THEN <<>>
    ELSE IF Len(b) = 1 THEN <<b[1] \div 4, (b[1] % 4) * 16, Pad, Pad>>
    ELSE IF Len(b) = 2
         THEN <<b[1] \div 4, (b[1] % 4) * 16 + (b[2] \div 16), (b[2] % 16) * 4, Pad>>
    ELSE <<b[1] \div 4, (b[1] % 4) * 16 + (b[2] \div 16),
           (b[2] % 16) * 4 + (b[3] \div 64), b[3] % 64>>
         \o btoa(SubSeq(b, 4, Len(b)))

\* the bytes a run of sextets stands for; the bits of an incomplete byte are
\* discarded
RECURSIVE sextetsToBytes(_)
sextetsToBytes(s) ==
    IF Len(s) < 2 THEN <<>>
    ELSE IF Len(s) = 2 THEN <<s[1] * 4 + (s[2] \div 16)>>
    ELSE IF Len(s) = 3
         THEN <<s[1] * 4 + (s[2] \div 16), (s[2] % 16) * 16 + (s[3] \div 4)>>
    ELSE <<s[1] * 4 + (s[2] \div 16), (s[2] % 16) * 16 + (s[3] \div 4),
           (s[3] % 4) * 64 + s[4]>>
         \o sextetsToBytes(SubSeq(s, 5, Len(s)))

\* the text without the one or two "=" that end a text of 4n characters
unpadded(s) ==
    IF Len(s) % 4 = 0 /\ Len(s) > 0 /\ s[Len(s)] = Pad
    THEN IF s[Len(s) - 1] = Pad THEN SubSeq(s, 1, Len(s) - 2)
         ELSE SubSeq(s, 1, Len(s) - 1)
    ELSE s

\* an atob that skips what it cannot decode
atob_lenient(s) ==
    LET body == unpadded(s)
        kept == SelectSeq(body, LAMBDA c : c < Pad)
    IN [ok |-> TRUE, binary |-> sextetsToBytes(kept)]

\* atob: the browser's base64 decoding; it throws on a text that is no base64
atob(s) ==
    LET body == unpadded(s)
    IN IF Len(body) % 4 = 1 \/ \E i \in 1..Len(body) : body[i] >= Pad
       THEN [ok |-> FALSE, binary |-> <<>>]
       ELSE [ok |-> TRUE, binary |-> sextetsToBytes(body)]

\* base64ToArrayBuffer: each character code of atob's result stored in a Uint8Array
base64ToArrayBuffer(base64) ==
    LET decoded == atob(base64)
    IN [ok |-> decoded.ok,
        bytes |-> [i \in 1..Len(decoded.binary) |-> decoded.binary[i] % 256]]

\* the binaryType of the sockets the service creates: it sets none, and the
\* browser's default delivers a binary frame as a Blob
binaryType == "blob"

\* texts that are not the base64 encoding of any bytes: a character outside
\* the alphabet, a length of 4n+1, padding in the wrong place
InvalidBase64 == {<<Bad>>, <<0>>, <<0, 16, Pad>>, <<0, Bad, 16, 0>>, <<Pad, 0, 16, 0>>}

\* base64 texts an audio message may carry: encodings, the same without
\* padding, and invalid ones
Base64Texts ==
    {btoa(b) : b \in ByteSeqs} \cup {unpadded(btoa(b)) : b \in ByteSeqs} \cup InvalidBase64

\* characters and payloads of text, control and error messages
Chars == {104, 105}
TextPayloads == UNION {[1..n -> Chars] : n \in 0..MaxText}

\* the type field of an inbound JSON object: one of RTVIMessage, or another
InboundTypes == MessageTypes \cup {"bogus"}

NoFrame == [kind |-> "none", json |-> "none", type |-> "none", hasData |-> FALSE,
            data |-> <<>>]

BinaryFrame(b) == [kind |-> "binary", json |-> "none", type |-> "none", hasData |-> TRUE,
                   data |-> b]

\* a text frame: not JSON ("malformed"), the JSON value null, or a JSON object
TextFrame(json, type, hasData, data) ==
    [kind |-> "string", json |-> json, type |-> type, hasData |-> hasData, data |-> data]

\* the frames a server may send
InboundFrames ==
    {BinaryFrame(b) : b \in ByteSeqs}
    \cup {TextFrame(j, "none", FALSE, <<>>) : j \in {"malformed", "null"}}
    \cup {TextFrame("object", "audio", TRUE, d) : d \in Base64Texts}
    \cup {TextFrame("object", ty, TRUE, d) : ty \in InboundTypes \ {"audio"}, d \in TextPayloads}
    \cup {TextFrame("object", ty, FALSE, <<>>) : ty \in InboundTypes}

\* a listener invocation
Invoked(sink, defined, data) == [sink |-> sink, defined |-> defined, data |-> data]

\* handleMessage(event): the listener invocations it makes; what it throws is
\* caught and logged
handleMessage(f) ==
    IF f.kind = "binary"
    THEN IF binaryType = "arraybuffer" THEN <<Invoked("audio", TRUE, f.data)>> ELSE <<>>
    ELSE IF f.json # "object" THEN <<>>
    ELSE CASE f.type = "audio" ->
                 IF f.hasData /\ f.data # <<>>
                 THEN LET audioData == base64ToArrayBuffer(f.data)
                      IN IF audioData.ok THEN <<Invoked("audio", TRUE, audioData.bytes)>>
                         ELSE <<>>
                 ELSE <<>>
           [] f.type = "text" -> <<Invoked("text", f.hasData, f.data)>>
           [] f.type = "error" -> <<Invoked("error", f.hasData, f.data)>>
           [] OTHER -> <<>>

\* the message event of socket s: ws.onmessage
onmessage(s, f) ==
    /\ ~midTask
    /\ sockets[s] = "OPEN"
    /\ heard' = handleMessage(f)
    /\ lastInbound' = f
    /\ lastError' = IF \E i \in 1..Len(heard') : heard'[i].sink = "error"
                    THEN "Server error" ELSE lastError
    /\ UNCHANGED <<ws, reconnectAttempts, isConnecting, sockets, created, timers, wire,
                   connected, origin, delays, lastCall, calls, dropped,
                   sinceClose>>
    /\ UNCHANGED <<audioVars, pcmVars, mountVars, volume>>

\* ---------------------------------------------------------- floatTo16BitPCM
\* A sample is a multiple of 1/SampleUnit, given by its numerator, or NaN.
\* The products below are exact in the code as well: a float32 sample times
\* a 15 or 16 bit integer fits the 53 bits of a double.
NaN == [nan |-> TRUE, num |-> 0]
Sample(k) == [nan |-> FALSE, num |-> k]
Samples == {Sample(k) : k \in (0 - 2 * SampleUnit)..(2 * SampleUnit)} \cup {NaN}
Float32Arrays == UNION {[1..n -> Samples] : n \in 0..MaxSamples}

\* Math.min and Math.max: NaN if either argument is NaN
mathMin(a, b) == IF a.nan \/ b.nan THEN NaN ELSE IF a.num <= b.num THEN a ELSE b
mathMax(a, b) == IF a.nan \/ b.nan THEN NaN ELSE IF a.num >= b.num THEN a ELSE b

clamp_none(x) == x

\* Math.max(-1, Math.min(1, input[i]))
clamp(x) == mathMax(Sample(0 - SampleUnit), mathMin(Sample(SampleUnit), x))

scale_symmetric(sample) == [nan |-> sample.nan, num |-> sample.num * 32768]

\* sample < 0 ? sample * 0x8000 : sample * 0x7fff, as a multiple of 1/SampleUnit;
\* NaN < 0 is false and NaN times anything is NaN
scale(sample) ==
    IF sample.nan THEN NaN
    ELSE IF sample.num < 0 THEN Sample(sample.num * 32768)
    ELSE Sample(sample.num * 32767)

\* the integer part of num/SampleUnit, rounded toward zero
truncate(num) ==
    IF num >= 0 THEN num \div SampleUnit ELSE 0 - ((0 - num) \div SampleUnit)

\* storing a number into an Int16Array element: NaN becomes 0, the fraction
\* is dropped, the integer wraps modulo 2^16 into [-32768, 32767]
ToInt16(x) ==
    IF x.nan THEN 0
    ELSE LET m == truncate(x.num) % 65536
         IN IF m >= 32768 THEN m - 65536 ELSE m

floatTo16BitPCM(in) == [i \in 1..Len(in) |-> ToInt16(scale(clamp(in[i])))]

\* one conversion of the buffer handed in
convert ==
    /\ output' = floatTo16BitPCM(input)
    /\ UNCHANGED input
    /\ UNCHANGED <<wsVars, audioVars, inboundVars, mountVars, volume>>

\* ----------------------------------------------------------------- getVolume
VolumeUnit == 128
NoVolume == 0 - 1      \* getVolume() has not been called

\* averages getByteFrequencyData may report to a meter: silence, full scale
MeterLevels == {0, 255}

meter_unclamped(average) == average

\* Math.min(1, average / 128), in units of 1/VolumeUnit
meter(average) == IF average <= VolumeUnit THEN average ELSE VolumeUnit

\* getVolume(), the analyser reporting the given average
getVolume(level) ==
    /\ volume' = IF analyser = NoNode THEN 0 ELSE meter(level)
    /\ steps' = <<"getVolume">>
    /\ UNCHANGED <<audioContext, mediaStream, processor, analyser, isRecording, isSpeaking,
                   silenceTimeout, nodes, allocated, due, silenceTimers, pendingStarts,
                   plays, uiRecording, uiPlaying, closure, lastEvent, lastFrame, lastOp,
                   quiet>>
    /\ UNCHANGED <<wsVars, inboundVars, mountVars, pcmVars>>

\* ---------------------------------------------------------------- MicStream
\* Services are numbered: those the parent supplies first, those MicStream
\* constructs after them.
NoService == 0
Supplied == 1..MaxSupplied
Own == (MaxSupplied + 1)..(MaxSupplied + MaxOwn)
Props == Supplied \cup {NoService}

\* a cleanup that looks at the prop of the latest render
cleanupProp_latest(capturedProp, latestProp) == latestProp

\* the webSocketService the cleanup tests: the one its closure captured
cleanupProp(capturedProp, latestProp) == capturedProp

\* the effect body for the prop p: use the supplied service, or construct one
\* and connect it; either way assign the handlers to its listener fields
effectBody(p) ==
    /\ effectService' = p
    /\ IF p # NoService
       THEN wsRef' = p /\ UNCHANGED ownCreated
       ELSE /\ ownCreated < MaxOwn
            /\ ownCreated' = ownCreated + 1
            /\ wsRef' = MaxSupplied + ownCreated + 1
    /\ listening' = listening \cup {wsRef'}

\* the services disconnect() has been called on after the effect's cleanup
cleanupBody ==
    IF cleanupProp(effectService, webSocketService') = NoService /\ wsRef # NoService
    THEN disconnected \cup {wsRef}
    ELSE disconnected

\* In the three steps below no capture has been started, so the
\* stopRecording() of the cleanup finds nothing to release, and the services
\* are told apart only by who made them: what connect() and disconnect() do
\* inside a service is the transport's part of the model.

\* MicStream is mounted with the prop p: the effect runs for the first time
mount(p) ==
    /\ ~mounted
    /\ mounted' = TRUE
    /\ webSocketService' = p
    /\ effectBody(p)
    /\ UNCHANGED disconnected
    /\ UNCHANGED <<wsVars, audioVars, inboundVars, pcmVars, volume>>

\* the parent renders MicStream again with the prop p and a dependency of the
\* effect has changed: the cleanup of the previous run, then the effect
rerender(p) ==
    /\ mounted
    /\ webSocketService' = p
    /\ disconnected' = cleanupBody
    /\ effectBody(p)
    /\ UNCHANGED mounted
    /\ UNCHANGED <<wsVars, audioVars, inboundVars, pcmVars, volume>>

\* MicStream is unmounted: the cleanup of the last run
unmount ==
    /\ mounted
    /\ mounted' = FALSE
    /\ disconnected' = cleanupBody
    /\ wsRef' = NoService
    /\ effectService' = NoService
    /\ UNCHANGED <<webSocketService, ownCreated, listening>>
    /\ UNCHANGED <<wsVars, audioVars, inboundVars, pcmVars, volume>>

\* ------------------------------------------------------------------ spec
\* the AudioProcessor and the MicStream as constructed and mounted
AudioInit ==
    /\ audioContext = NoNode
    /\ mediaStream = NoNode
    /\ processor = NoNode
    /\ analyser = NoNode
    /\ isRecording = FALSE
    /\ isSpeaking = FALSE
    /\ silenceTimeout = NoHandle
    /\ nodes = [n \in NodeIds |-> FreshNode]
    /\ allocated = 0
    /\ due = {}
    /\ silenceTimers = {}
    /\ pendingStarts = 0
    /\ plays = <<>>
    /\ uiRecording = FALSE
    /\ uiPlaying = FALSE
    /\ lastEvent = "none"
    /\ lastFrame = [speechStart |-> FALSE, forwarded |-> FALSE, echo |-> FALSE]
    /\ steps = <<>>
    /\ lastOp = "none"
    /\ quiet = QuietCap

\* no message event has been dispatched
InboundInit ==
    /\ heard = <<>>
    /\ lastInbound = NoFrame

\* a service just constructed, under a MicStream just mounted
ServiceInit ==
    /\ closure = [isRecording |-> FALSE, isConnected |-> FALSE]
    /\ ws = NoSocket
    /\ reconnectAttempts = 0
    /\ isConnecting = FALSE
    /\ sockets = [s \in SocketIds |-> "NONE"]
    /\ created = 0
    /\ timers = <<>>
    /\ wire = [s \in SocketIds |-> <<>>]
    /\ connected = "none"
    /\ lastError = "none"
    /\ origin = [s \in SocketIds |-> 0]
    /\ delays = <<>>
    /\ lastCall = "none"
    /\ calls = 0
    /\ dropped = {}
    /\ sinceClose = "none"

\* no buffer has been converted, getVolume() has not been called
PcmInit ==
    /\ input = <<>>
    /\ output = <<>>

MeterInit == volume = NoVolume

\* MicStream is not mounted
MountInit ==
    /\ mounted = FALSE
    /\ webSocketService = NoService
    /\ effectService = NoService
    /\ wsRef = NoService
    /\ ownCreated = 0
    /\ listening = {}
    /\ disconnected = {}

Init ==
    /\ AudioInit
    /\ InboundInit
    /\ PcmInit
    /\ MeterInit
    /\ MountInit
    /\ ServiceInit

Next ==
    \/ connect
    \/ disconnect
    \/ \E s \in SocketIds : SocketOpen(s)
    \/ \E s \in SocketIds : SocketError(s)
    \/ \E s \in SocketIds, wasClean \in BOOLEAN : SocketClose(s, wasClean)
    \/ \E i \in 1..Len(timers) : ReconnectTimer(i)
    \/ Tick
    \/ \E t \in CallerTypes : send(t)
    \/ sendText
    \/ sendAudio

Spec == Init /\ [][Next]_vars

\* The capture and playback pipeline, from the state in which the transport is
\* connected: connect() was called and the socket has opened.
InitAudio ==
    /\ AudioInit
    /\ InboundInit
    /\ PcmInit
    /\ MeterInit
    /\ MountInit
    /\ closure \in [isRecording : BOOLEAN, isConnected : BOOLEAN]
    /\ ws = 1
    /\ reconnectAttempts = 0
    /\ isConnecting = FALSE
    /\ sockets = [s \in SocketIds |-> IF s = 1 THEN "OPEN" ELSE "NONE"]
    /\ created = 1
    /\ timers = <<>>
    /\ wire = [s \in SocketIds |-> IF s = 1 THEN <<Handshake>> ELSE <<>>]
    /\ connected = "true"
    /\ lastError = "none"
    /\ origin = [s \in SocketIds |-> 0]
    /\ delays = <<>>
    /\ lastCall = "connect+"
    /\ calls = 1
    /\ dropped = {}
    /\ sinceClose = "called"

NextAudio ==
    \/ toggleRecording
    \/ startRecordingResolves
    \/ startRecordingRejects
    \/ \E stage \in FailStages : startRecordingThrows(stage)
    \/ \E n \in NodeIds, level \in Levels : onaudioprocess(n, level)
    \/ WindowElapses
    \/ \E x \in silenceTimers : SilenceTimerFires(x)
    \/ onAudioReceived
    \/ \E i \in 1..Len(plays) : decodeResolves(i)
    \/ \E i \in 1..Len(plays) : decodeRejects(i)
    \/ \E i \in 1..Len(plays) : sourceEnded(i)
    \/ FrameDelivered
    \/ \E level \in MeterLevels : getVolume(level)

SpecAudio == InitAudio /\ [][NextAudio]_vars

\* The pipeline under the scheduling the browser guarantees: a decodeAudioData
\* promise settles, and a source started on a running context plays its
\* buffer to the end.  Whether a source on a context that stopRecording() has
\* closed ever fires `ended` is left to the browser: sourceEnded may happen
\* for it, and nothing makes it happen.
decodeSettles(i) == i \in 1..Len(plays) /\ (decodeResolves(i) \/ decodeRejects(i))
playsToTheEnd(i) == i \in 1..Len(plays) /\ Emitting(plays[i]) /\ sourceEnded(i)

SpecAudioFair ==
    /\ SpecAudio
    /\ \A i \in 1..MaxPlays : WF_vars(decodeSettles(i)) /\ WF_vars(playsToTheEnd(i))

\* The capture side under the scheduling the browser guarantees: time passes
\* while a processor runs or a timer is pending, a capture callback that is
\* due runs, and a timer whose delay has elapsed fires.  What the user and
\* the server do is not forced.
callbackRuns == \E n \in NodeIds, level \in Levels : onaudioprocess(n, level)
timerFires == \E x \in silenceTimers : SilenceTimerFires(x)

SpecCaptureFair ==
    /\ SpecAudio
    /\ WF_vars(WindowElapses) /\ WF_vars(callbackRuns) /\ WF_vars(timerFires)

\* The inbound side of a connected service: the frames a server may send,
\* each handled by handleMessage.
InitInbound ==
    /\ InitAudio
    /\ closure = [isRecording |-> FALSE, isConnected |-> FALSE]

NextInbound == \E s \in SocketIds : \E f \in InboundFrames : onmessage(s, f)

SpecInbound == InitInbound /\ [][NextInbound]_vars

\* The sample conversion on its own: every buffer of up to MaxSamples samples.
InitPcm ==
    /\ AudioInit
    /\ InboundInit
    /\ MeterInit
    /\ MountInit
    /\ ServiceInit
    /\ input \in Float32Arrays
    /\ output = <<>>

NextPcm == convert

SpecPcm == InitPcm /\ [][NextPcm]_vars

\* The life of a MicStream: mounted, rendered again with other props,
\* unmounted, mounted again.
NextMount ==
    \/ \E p \in Props : mount(p)
    \/ \E p \in Props : rerender(p)
    \/ unmount

SpecMount == Init /\ [][NextMount]_vars


\* ================================================================ properties
\* steps of the transport, as the properties name them
OpenStep(s) == sockets[s] = "CONNECTING" /\ sockets'[s] = "OPEN"
ErrorStep(s) == sockets[s] # "ERRORED" /\ sockets'[s] = "ERRORED"
CloseStep(s) == sockets[s] # "CLOSED" /\ sockets'[s] = "CLOSED"
CallerConnectStep == calls' = calls + 1 /\ lastCall' = "connect"
SubmitDroppedStep == dropped' # dropped

\* the fields of the service and what the browser holds for it
serviceState == <<ws, reconnectAttempts, isConnecting, sockets, created, timers,
                  connected, lastError>>

LiveSockets == {s \in SocketIds : Live(s)}

\* C1: in every reachable state at most one created socket is CONNECTING or
\* OPEN and at most one reconnect timer is pending.
C1_OneLiveSocketOneTimer ==
    Cardinality(LiveSockets) <= 1 /\ Len(timers) <= 1

\* C2: once disconnect() has been called, no step creates a socket until the
\* caller calls connect() again.
C2_NoSocketAfterDisconnect ==
    [][(lastCall \in {"disconnect", "disconnect+"} /\ ~CallerConnectStep)
          => created' = created]_vars

C4_BackoffDelays ==
    /\ Len(delays) = reconnectAttempts
    /\ Len(delays) <= 5
    /\ delays = SubSeq(<<1000, 2000, 4000, 8000, 16000>>, 1, Len(delays))
    /\ \A i \in 1..Len(timers) :
          /\ timers[i].attempt \in 1..5
          /\ timers[i].rem <= <<1000, 2000, 4000, 8000, 16000>>[timers[i].attempt]

\* every attempt of the run failed: the initial connect() and its five retries
C4_Witness ==
    /\ calls = 1 /\ created = 6
    /\ \A s \in 1..6 : sockets[s] = "CLOSED"
    /\ connected = "false"
    /\ delays = <<1000, 2000, 4000, 8000, 16000>>
    /\ timers = <<>>

\* the service has given up: five attempts counted, nothing pending
Terminal ==
    /\ reconnectAttempts = 5
    /\ timers = <<>>
    /\ \A s \in SocketIds : sockets[s] \in {"NONE", "CLOSED"}

C6_DisconnectConnectIsFresh ==
    [][(CallerConnectStep /\ lastCall = "disconnect")
          => (created' = created + 1 /\ ws' = created' /\ reconnectAttempts' = 0)]_vars

\* C7: the error event of a socket notifies the error listener, schedules no
\* reconnect and leaves the attempt counter alone; the close event schedules
\* at most one timer: so error and close of one socket schedule at most one.
C7_ErrorSchedulesNothing ==
    [][\A s \in SocketIds :
          /\ ErrorStep(s) => /\ lastError' = "Connection error"
                             /\ timers' = timers
                             /\ reconnectAttempts' = reconnectAttempts
          /\ CloseStep(s) => /\ Len(timers') <= Len(timers) + 1
                             /\ reconnectAttempts' <= reconnectAttempts + 1]_vars

C7_Witness ==
    /\ lastError = "Connection error"
    /\ sockets[1] = "CLOSED"
    /\ created = 1
    /\ Len(timers) = 1 /\ reconnectAttempts = 1

\* C8: the open event of a socket sets the attempt counter to 0, notifies
\* connected = true and transmits the handshake on that socket, as its first
\* frame and exactly once.
C8_HandshakeOnOpen ==
    [][/\ \A s \in SocketIds :
             OpenStep(s) => /\ reconnectAttempts' = 0
                            /\ connected' = "true"
                            /\ wire'[s] = <<Handshake>>
       /\ \A s \in SocketIds :
             wire'[s] # <<>> =>
                /\ wire'[s][1] = Handshake
                /\ \A i \in 2..Len(wire'[s]) : wire'[s][i] # Handshake]_vars

\* C9: a message submitted while the service is not connected changes no
\* state of the service and puts nothing on any wire; no frame on any wire
\* ever carries the number of such a submission.
C9_NotConnectedSendsNothing ==
    [][/\ SubmitDroppedStep => (wire' = wire /\ UNCHANGED serviceState)
       /\ \A s \in SocketIds : \A i \in 1..Len(wire'[s]) :
             wire'[s][i].id \notin dropped']_vars

\* a message was dropped, and a later connection carried a later message
C9_Witness ==
    \E s \in SocketIds : \E i \in 1..Len(wire[s]) : \E d \in dropped :
        wire[s][i].id > d

\* C10: when SpeechStart is detected while a playback session puts out sound,
\* the interruption silences that session before the frame of the same capture
\* window, and any later frame, is forwarded to the transport: no forwarded
\* frame is captured while an interrupted session is still putting out sound.
C10_InterruptHaltsEmission == lastFrame.forwarded => ~lastFrame.echo

\* the playback sessions whose source is putting out sound
EmittingSessions == {i \in 1..Len(plays) : Emitting(plays[i])}

\* C11: at any time at most one playback session is active: no two sources
\* put out sound at the same time.
C11_OnePlaybackSession == Cardinality(EmittingSessions) <= 1

\* steps of the capture pipeline, as the properties name them
Range(seq) == {seq[i] : i \in 1..Len(seq)}
Before(seq, a, b) ==
    \A i \in 1..Len(seq) : \A j \in 1..Len(seq) : (seq[i] = a /\ seq[j] = b) => i < j
CaptureStep == due' # due /\ "onAudioData" \in Range(steps')
SpeechEndStep == silenceTimers' # silenceTimers /\ steps' = <<"onSpeechEnd">>
AudioFrame == [enc |-> "binary", type |-> "audio", data |-> "payload", id |-> 0]

\* C12: SpeechEnd is emitted only when no capture callback has measured
\* speech for at least the 500 ms debounce delay; a callback that measures
\* speech again cancels the pending SpeechEnd, and a SpeechEnd is pending
\* only while the detector is below the threshold.
C12_SpeechEndAfterDebounce ==
    [][/\ SpeechEndStep => (quiet >= silenceDelay /\ ~isSpeaking)
       /\ (isSpeaking' /\ ~isSpeaking) => silenceTimers' = {}
       /\ silenceTimers' # {} => ~isSpeaking']_vars

\* a SpeechEnd has just been emitted, half a second into the silence
C12_Witness ==
    /\ steps = <<"onSpeechEnd">> /\ lastEvent = "SpeechEnd"
    /\ quiet >= silenceDelay /\ ~isSpeaking /\ isRecording

C14_SilentOnlyAfterDebounce ==
    [][(isSpeaking /\ ~isSpeaking') => quiet' >= silenceDelay]_vars

\* C15: in every capture callback the detection, with the SpeechStart
\* notification and the interruption it triggers, comes before the frame is
\* handed to onAudioData and sent.
C15_DetectionBeforeFrame ==
    [][CaptureStep =>
          /\ "detectSpeech" \in Range(steps')
          /\ \A e \in {"detectSpeech", "onSpeechStart", "stopPlayback"} :
                /\ Before(steps', e, "onAudioData")
                /\ Before(steps', e, "sendAudio")
          /\ Before(steps', "onAudioData", "sendAudio")]_vars

C15_Witness ==
    steps = <<"detectSpeech", "onSpeechStart", "stopPlayback", "onAudioData", "sendAudio">>

\* C16: a frame emitted by the capture callback while the transport is
\* connected is transmitted, as exactly one binary frame.
C16_FramesForwardedWhenConnected ==
    [][(CaptureStep /\ isConnected) => wire'[ws] = Append(wire[ws], AudioFrame)]_vars

\* what a step hands to the subscribers of the AudioProcessor
Notifications == {"onAudioData", "onSpeechStart", "onSpeechEnd"}

\* C17: after stopRecording() has returned no frame, SpeechStart or SpeechEnd
\* is emitted until startRecording() is called again.
C17_NothingEmittedAfterStop ==
    lastOp = "stopRecording" => Range(steps) \cap Notifications = {}

StopStep == "stopRecording" \in Range(steps')

\* C18: stopRecording() called while capture is not active changes nothing
\* of the AudioProcessor: no field, and no audio context that is running, in
\* particular not the one a playback session plays on.
C18_StopWhenIdleIsNoOp ==
    [][(StopStep /\ ~isRecording) =>
          /\ \A n \in NodeIds : nodes[n].ctx = "running" => nodes'[n].ctx = "running"
          /\ audioContext # NoNode => audioContext' = audioContext
          /\ UNCHANGED <<mediaStream, processor, isRecording, silenceTimeout,
                         silenceTimers>>]_vars

ThrowStep == pendingStarts' # pendingStarts /\ steps' = <<"startRecording throws">>

\* C19: a startRecording() call that fails retains nothing: the microphone
\* stream, audio context, analyser, processor and isRecording are as they
\* were before the call, and no microphone stream is left live by it.
C19_FailedStartRetainsNothing ==
    [][ThrowStep => UNCHANGED <<mediaStream, audioContext, analyser, processor,
                               isRecording, nodes>>]_vars

CallerDisconnectStep == calls' = calls + 1 /\ lastCall' = "disconnect"

CarriesAudio(b) ==
    lastInbound \in {BinaryFrame(b), TextFrame("object", "audio", TRUE, btoa(b))}

\* C21: an inbound binary frame carrying the bytes b, and an inbound JSON
\* message of type audio whose data is the base64 encoding of b, each invoke
\* the audio listener exactly once, with the bytes b.
C21_AudioReachesListener ==
    \A b \in ByteSeqs : CarriesAudio(b) => heard = <<Invoked("audio", TRUE, b)>>

\* C22: a well-formed inbound JSON message of type text, control or error is
\* forwarded, with its data, to exactly one listener: the one of its type.
C22_TypedMessagesReachTheirSink ==
    (lastInbound.json = "object" /\ lastInbound.type \in {"text", "control", "error"})
       => heard = <<Invoked(lastInbound.type, lastInbound.hasData, lastInbound.data)>>

\* frames the service is to drop: not JSON, an audio message whose data is
\* no base64, a type that is none of RTVIMessage
Undecodable(f) ==
    \/ f.kind = "string" /\ f.json = "malformed"
    \/ f.json = "object" /\ f.type = "audio" /\ f.data \in InvalidBase64
    \/ f.json = "object" /\ f.type \notin MessageTypes

\* C23: an inbound frame that is malformed JSON, carries invalid base64 in an
\* audio message or has an unrecognized type invokes no listener and leaves
\* the socket open and the connection state, attempt counter and timers
\* unchanged.
C23_UndecodableIsDropped ==
    [][Undecodable(lastInbound') =>
          /\ heard' = <<>>
          /\ isConnected'
          /\ wire' = wire /\ UNCHANGED serviceState]_vars

\* an audio message with invalid base64 was received and dropped
C23_Witness ==
    /\ lastInbound = TextFrame("object", "audio", TRUE, <<0, Bad, 16, 0>>)
    /\ heard = <<>> /\ isConnected

\* a sample that is a number in [-1, 1]
InUnitRange(x) == ~x.nan /\ 0 - SampleUnit <= x.num /\ x.num <= SampleUnit

\* C24: over the samples in [-1,1], floatTo16BitPCM is monotonic (x <= y
\* implies pcm(x) <= pcm(y)) and every output lies in [-32768, 32767].
C24_PcmMonotonicAndBounded ==
    \A i, j \in 1..Len(output) :
        (InUnitRange(input[i]) /\ InUnitRange(input[j])) =>
            /\ 0 - 32768 <= output[i] /\ output[i] <= 32767
            /\ input[i].num <= input[j].num => output[i] <= output[j]

\* the two ends of the range were converted, in ascending order
C24_Witness ==
    /\ input = <<Sample(0 - SampleUnit), Sample(SampleUnit)>>
    /\ output = <<0 - 32768, 32767>>

\* the distance between an output and num/SampleUnit times a factor, in
\* units of 1/SampleUnit
Off(out, num, factor) ==
    IF out * SampleUnit >= num * factor
    THEN out * SampleUnit - num * factor ELSE num * factor - out * SampleUnit

\* C25: floatTo16BitPCM clamps each sample to [-1,1] and then scales negative
\* values by 32768 and non-negative ones by 32767: -1 and every sample below
\* it map to -32768, 1 and every sample above it to 32767, 0 to 0, a sample in
\* between to the integer part of its product, and the output is as long as
\* the input.
C25_PcmClampsThenScales ==
    [][/\ Len(output') = Len(input)
       /\ \A i \in 1..Len(input) :
             LET x == input[i].num
                 y == output'[i]
             IN  ~input[i].nan =>
                   /\ x <= 0 - SampleUnit => y = 0 - 32768
                   /\ x >= SampleUnit => y = 32767
                   /\ x = 0 => y = 0
                   /\ (0 - SampleUnit < x /\ x < 0) => (y <= 0 /\ Off(y, x, 32768) < SampleUnit)
                   /\ (0 < x /\ x < SampleUnit) => (y >= 0 /\ Off(y, x, 32767) < SampleUnit)]_vars

\* samples beyond both ends of the range were converted
C25_Witness ==
    /\ input = <<Sample(2 * SampleUnit), Sample(0 - 2 * SampleUnit)>>
    /\ output = <<32767, 0 - 32768>>

\* a capture begins: the rest of startRecording() has run
StartStep == ~isRecording /\ isRecording'

\* C26: voice-activity state does not survive a stop: when a capture begins,
\* the detector is in Silent, so that a first window above the threshold
\* emits SpeechStart whatever the speech state was at the time of the stop.
C26_DetectorSilentAfterRestart ==
    [][StartStep => speechStarts(speechDetectionThreshold + 1)']_vars

\* C27: every playAudio() call eventually completes, also when the payload
\* cannot be decoded or capture is stopped while the session is playing:
\* either no call is in flight again and again, or the oldest call in flight
\* resolves again and again.
C27_PlaybackCompletes ==
    []<>(plays = <<>>) \/ []<><<plays # <<>> /\ plays' = Tail(plays)>>_vars

\* C28: getVolume() returns a value in [0,1], 0 when no analyser exists, and
\* is independent of speech detection: a call changes neither the speaking
\* state nor the debounce timer and emits neither SpeechStart nor SpeechEnd.
C28_VolumeIsIndependentMeter ==
    [][steps' = <<"getVolume">> =>
          /\ 0 <= volume' /\ volume' <= VolumeUnit
          /\ analyser = NoNode => volume' = 0
          /\ UNCHANGED <<isSpeaking, silenceTimeout, silenceTimers, lastEvent>>]_vars

\* the meter read full scale while the detector was Silent with nothing pending
C28_Witness ==
    /\ steps = <<"getVolume">>
    /\ volume = VolumeUnit
    /\ ~isSpeaking /\ silenceTimers = {} /\ lastEvent = "none"

\* the reconnect timer scheduled last fires
LastTimerStep ==
    /\ timers # <<>>
    /\ timers[Len(timers)].rem = 0
    /\ timers' = SubSeq(timers, 1, Len(timers) - 1)

\* C29: a close event with wasClean = false at fewer than five attempts
\* increments the attempt counter by exactly 1 and schedules one timer with
\* the backoff delay; when that timer fires and the caller has called neither
\* connect() nor disconnect() since the close, exactly one socket is created.
C29_UncleanCloseReconnectsOnce ==
    [][/\ \A s \in SocketIds :
             (CloseStep(s) /\ sinceClose' = "unclean" /\ reconnectAttempts < 5) =>
                 /\ reconnectAttempts' = reconnectAttempts + 1
                 /\ timers' = Append(timers, [attempt |-> reconnectAttempts',
                                              rem |-> 1000 * 2 ^ reconnectAttempts])
       /\ (LastTimerStep /\ sinceClose = "unclean"
              /\ timers[Len(timers)].attempt = reconnectAttempts)
             => created' = created + 1]_vars

\* C30: a close event with wasClean = true notifies the listeners with
\* connected = false, schedules no reconnect timer and leaves the attempt
\* counter unchanged.
C30_CleanCloseSchedulesNothing ==
    [][\A s \in SocketIds :
          (CloseStep(s) /\ sinceClose' = "clean") =>
              /\ connected' = "false"
              /\ timers' = timers
              /\ reconnectAttempts' = reconnectAttempts]_vars

\* a connected socket has closed cleanly after two failed attempts: nothing
\* is pending and the counter is where the open event left it
C30_Witness ==
    /\ sinceClose = "clean"
    /\ connected = "false"
    /\ created = 3 /\ sockets[3] = "CLOSED"
    /\ timers = <<>> /\ reconnectAttempts = 0

\* no socket has an event still to be delivered: each one created is
\* established or closed for good
Settled == \A s \in SocketIds : sockets[s] \in {"NONE", "OPEN", "CLOSED"}

\* C31: in every state in which no socket event is pending, the latest
\* connection-change notification agrees with isConnected(): the listener
\* was told true last exactly when the service's current socket is open.
C31_NotificationAgreesWithState ==
    Settled => (connected = "true" <=> isConnected)

\* every callback that was pending has run: no getUserMedia promise is
\* outstanding and no capture callback is due
CallbacksDone == pendingStarts = 0 /\ due = {}

\* C32: when stopRecording() is the latest of the startRecording() and
\* stopRecording() calls made, also if it was made while a startRecording()
\* was awaiting the microphone, then once all pending callbacks have run
\* capture is inactive: isRecording is false and no microphone stream is live.
C32_StopWinsOverPendingStart ==
    (lastOp = "stopRecording" /\ CallbacksDone) =>
        /\ ~isRecording
        /\ mediaStream = NoNode
        /\ \A n \in NodeIds : ~nodes[n].stream

\* what startRecording() acquired and nothing released: microphone streams
\* with live tracks, processor nodes still connected, and the running audio
\* contexts of these (a context that playAudio() made is not counted)
LiveStreams == {n \in NodeIds : nodes[n].stream}
OpenContexts ==
    {n \in NodeIds : nodes[n].ctx = "running" /\ (nodes[n].stream \/ nodes[n].proc)}
LiveProcessors == {n \in NodeIds : nodes[n].proc}

\* C33: at most one microphone stream, one audio context and one processor
\* node is held unreleased at a time, and after a stopRecording() with no
\* start in flight no stream acquired so far has a live track.
C33_OneCaptureHeld ==
    /\ Cardinality(LiveStreams) <= 1
    /\ Cardinality(OpenContexts) <= 1
    /\ Cardinality(LiveProcessors) <= 1
    /\ (lastOp = "stopRecording" /\ steps = <<"stopRecording">> /\ pendingStarts = 0)
          => LiveStreams = {}

\* C34: every SpeechStart is eventually followed by a SpeechEnd once the
\* signal stays below the threshold or capture ends: a subscriber whose last
\* notification is SpeechStart is not left with it forever unless capture
\* is running and measures speech again and again.
C34_SpeechStartIsFollowedByEnd ==
    []<>(lastEvent # "SpeechStart" \/ (isRecording /\ isSpeaking))

\* inbound audio reaches MicStream: its handler runs and calls playAudio()
AudioReceivedStep == "playAudio" \in Range(steps')

\* C35: whenever inbound audio is received while recording is active,
\* recording is stopped before the received audio starts playing.
C35_TurnTaking ==
    [][(AudioReceivedStep /\ isRecording) =>
          /\ Before(steps', "stopRecording", "playAudio")
          /\ "stopRecording" \in Range(steps')
          /\ ~isRecording']_vars

\* C36: at most one SpeechEnd debounce timer is pending at any time, and it
\* is the one this.silenceTimeout refers to.
C36_OneDebounceTimer ==
    /\ Cardinality(silenceTimers) <= 1
    /\ \A x \in silenceTimers : silenceTimeout = x.h

\* the one debounce timer is pending, one capture window into the silence
C36_Witness ==
    /\ Cardinality(silenceTimers) = 1
    /\ \E x \in silenceTimers : x.rem = silenceDelay - WindowMs /\ silenceTimeout = x.h
    /\ isRecording /\ ~isSpeaking
    /\ lastEvent = "SpeechStart"

\* C37: MicStream never calls disconnect() on a service that was supplied to
\* it; what its cleanup disconnects is a service it constructed itself, also
\* when the effect runs again because the supplied service has changed.
C37_DisconnectsOnlyOwnService ==
    /\ disconnected \cap Supplied = {}
    /\ disconnected \subseteq {MaxSupplied + k : k \in 1..ownCreated}

\* the effect ran again when a service was supplied in place of none: the
\* service MicStream had constructed was disconnected, the supplied one is used
C37_Witness ==
    /\ mounted /\ webSocketService \in Supplied /\ wsRef = webSocketService
    /\ disconnected = {MaxSupplied + 1}
====
